---- MODULE Spec2Model ----
(***************************************************************************)
(* FIO Monitor (fio-collector/fio_monitor.py) and the history loader of    *)
(* fio_analyzer.py as a state machine.                                     *)
(*                                                                         *)
(* One monitor process: construction, then either the single-run loop of   *)
(* main() or run_monitoring_cycle().  File writes are split at the points   *)
(* where open(..., 'w') has truncated the file and json.dump has not yet    *)
(* written it, because a KeyboardInterrupt can be delivered there.          *)
(***************************************************************************)
EXTENDS Integers, Sequences, FiniteSets, TLC

\* Largest --cycles value explored; also where the unbounded loop
\* (cycles is None) is cut off.
MaxCycles == 2

\* A key a benchmark document does not carry.
Absent == -1

-----------------------------------------------------------------------------
(* Python values.  Every value has the same shape so that comparing values  *)
(* of different Python types is defined (and false), as == is in Python.    *)

Lat(mn, mx, mean) == [min |-> mn, max |-> mx, mean |-> mean]

\* x / 1000 in Python is a float; kept as the exact fraction.
Frac(n) == [num |-> n, den |-> 1000]

\* The j field of a value that is no job sub-record.
NoJob == <<>>

StrV(s) == [t |-> "str", s |-> s, n |-> 0, j |-> NoJob]
\* datetime.now().isoformat(): the string naming second n.
TimeV(n) == [t |-> "time", s |-> "", n |-> n, j |-> NoJob]
\* An options mapping passed through unread; s names its content.
DictV(s) == [t |-> "dict", s |-> s, n |-> 0, j |-> NoJob]
JobV(j) == [t |-> "job", s |-> "", n |-> 0, j |-> <<j>>]
NullV == [t |-> "null", s |-> "", n |-> 0, j |-> NoJob]

-----------------------------------------------------------------------------
(* Python dicts: a sequence of <<key, value>> pairs with distinct keys, in   *)
(* insertion order.                                                         *)

HasKey(d, k) == \E i \in 1..Len(d) : d[i][1] = k

\* d.get(k, dflt)
DictGet(d, k, dflt) ==
    IF HasKey(d, k)
    THEN d[CHOOSE i \in 1..Len(d) : d[i][1] = k][2]
    ELSE dflt

\* d[k] = v : an existing key keeps its position and takes the new value.
DictSet(d, k, v) ==
    IF HasKey(d, k)
    THEN [i \in 1..Len(d) |-> IF d[i][1] = k THEN <<k, v>> ELSE d[i]]
    ELSE Append(d, <<k, v>>)

IsPrefix(s, t) == Len(s) <= Len(t) /\ SubSeq(t, 1, Len(s)) = s

-----------------------------------------------------------------------------
(* Benchmark documents (the parsed stdout of the tool).                     *)

Dflt(x) == IF x = Absent THEN 0 ELSE x

\* job.get("read", {}) of a job without that key
EmptyStat ==
    [iops |-> Absent, bw_bytes |-> Absent, bw_kbps |-> Absent,
     lat_ns |-> Lat(Absent, Absent, Absent), percentile |-> <<>>]

ReadStat ==
    [iops |-> 100, bw_bytes |-> Absent, bw_kbps |-> 800,
     lat_ns |-> Lat(1000, 5000, 2000),
     percentile |-> << <<"95.000000", 4000>> >>]

WriteStat ==
    [iops |-> 50, bw_bytes |-> Absent, bw_kbps |-> 400,
     lat_ns |-> Lat(2000, 6000, 3000),
     percentile |-> << <<"95.000000", 5000>> >>]

\* A job without a "jobname" key.
NoName == "<no jobname>"

JobDoc(jobname, rd, wr, usr, sys) ==
    [jobname |-> jobname, read |-> rd, write |-> wr, usr_cpu |-> usr, sys_cpu |-> sys]

NoDoc == [global_options |-> "", jobs |-> <<>>]

\* Documents follow the tool's schema (objects where the normalizer and the
\* report expect objects, numbers where they divide).
\* The documents the tool may print for the test called name: the usual one
\* (one job carrying the name given with --name), and one with "global
\* options" missing, a job without a name and without write statistics, and
\* jobs called like two of the record's own fields.
Docs(name) ==
    { [global_options |-> "globals",
       jobs |-> << JobDoc(name, ReadStat, WriteStat, 3, 2) >>],
      [global_options |-> "",
       jobs |-> << JobDoc(NoName, ReadStat, EmptyStat, Absent, Absent),
                   JobDoc("test_name", ReadStat, WriteStat, 3, 2),
                   JobDoc("timestamp", EmptyStat, WriteStat, 1, Absent) >>] }

-----------------------------------------------------------------------------
(* Result Normalizer                                                        *)

convert_latency_to_us(latency_ns) ==
    [min |-> Frac(Dflt(latency_ns.min)),
     max |-> Frac(Dflt(latency_ns.max)),
     mean |-> Frac(Dflt(latency_ns.mean))]

StatResults(st) ==
    [iops |-> Dflt(st.iops),
     bw_bytes |-> Dflt(st.bw_bytes),
     bw_kbps |-> Dflt(st.bw_kbps),
     latency_ns |-> Lat(Dflt(st.lat_ns.min), Dflt(st.lat_ns.max), Dflt(st.lat_ns.mean)),
     percentiles |-> st.percentile,
     latency_us |-> convert_latency_to_us(st.lat_ns)]

JobResults(job) ==
    [read |-> StatResults(job.read),
     write |-> StatResults(job.write),
     cpu |-> Dflt(job.usr_cpu) + Dflt(job.sys_cpu)]

JobName(job) == IF job.jobname = NoName THEN "unknown" ELSE job.jobname

\* fio_data.get("global options", {})
GlobalOptions(fio_data) ==
    DictV(IF fio_data.global_options = "" THEN "{}" ELSE fio_data.global_options)

RECURSIVE AddJobs(_, _, _)
\* the for loop over fio_data["jobs"]: results[job_name] = job_results
AddJobs(results, jobs, i) ==
    IF i > Len(jobs)
    THEN results
    ELSE AddJobs(DictSet(results, JobName(jobs[i]), JobV(JobResults(jobs[i]))),
                 jobs, i + 1)

process_fio_results(test_name, fio_data, now) ==
    AddJobs(<< <<"timestamp", TimeV(now)>>,
               <<"test_name", StrV(test_name)>>,
               <<"global_options", GlobalOptions(fio_data)>> >>,
            fio_data.jobs, 1)

-----------------------------------------------------------------------------
(* json.dump / json.load.  A JSON text is a sequence of tokens; separators  *)
(* and indentation are left out.  A value (a string, a number, a nested     *)
(* object) is one token.                                                    *)

Tok(k, s, v) == [k |-> k, s |-> s, v |-> v]
LBracket == Tok("[", "", NullV)
RBracket == Tok("]", "", NullV)
LBrace == Tok("{", "", NullV)
RBrace == Tok("}", "", NullV)
KeyTok(s) == Tok("key", s, NullV)
ValTok(v) == Tok("val", "", v)

RECURSIVE EncodePairs(_, _)
EncodePairs(d, i) ==
    IF i > Len(d)
    THEN <<>>
    ELSE <<KeyTok(d[i][1]), ValTok(d[i][2])>> \o EncodePairs(d, i + 1)

\* json.dump(results, f, indent=2) of one record
EncodeRecord(d) == <<LBrace>> \o EncodePairs(d, 1) \o <<RBrace>>

RECURSIVE EncodeRecords(_, _)
EncodeRecords(h, i) ==
    IF i > Len(h)
    THEN <<>>
    ELSE EncodeRecord(h[i]) \o EncodeRecords(h, i + 1)

\* An incremental write: only the newest record.
DumpLastOnly(h) ==
    <<LBracket>> \o (IF h = <<>> THEN <<>> ELSE EncodeRecord(h[Len(h)])) \o <<RBracket>>

\* json.dump(self.history, f, indent=2)
DumpHistory(h) == <<LBracket>> \o EncodeRecords(h, 1) \o <<RBracket>>

Bad == [ok |-> FALSE, val |-> <<>>]

RECURSIVE ParseObject(_, _, _)
\* The members of an object from position i on, d the members read so far;
\* the result's val is <<object, position after its closing brace>>.
ParseObject(toks, i, d) ==
    IF i > Len(toks)
    THEN Bad
    ELSE IF toks[i].k = "}"
    THEN [ok |-> TRUE, val |-> <<d, i + 1>>]
    ELSE IF toks[i].k = "key" /\ i < Len(toks) /\ toks[i + 1].k = "val"
    THEN ParseObject(toks, i + 2, DictSet(d, toks[i].s, toks[i + 1].v))
    ELSE Bad

RECURSIVE ParseArray(_, _, _)
\* The elements of an array from position i on; the closing bracket must be
\* the last token.
ParseArray(toks, i, acc) ==
    IF i > Len(toks)
    THEN Bad
    ELSE IF toks[i].k = "]"
    THEN (IF i = Len(toks) THEN [ok |-> TRUE, val |-> acc] ELSE Bad)
    ELSE IF toks[i].k = "{"
    THEN LET o == ParseObject(toks, i + 1, <<>>)
         IN IF o.ok
            THEN ParseArray(toks, o.val[2], Append(acc, o.val[1]))
            ELSE Bad
    ELSE Bad

\* json.load(f): ok is FALSE where it raises JSONDecodeError.
JsonLoad(toks) ==
    IF toks # <<>> /\ toks[1].k = "["
    THEN ParseArray(toks, 2, <<>>)
    ELSE Bad

NoFile == [exists |-> FALSE, text |-> <<>>]
FileOf(text) == [exists |-> TRUE, text |-> text]

\* FIOAnalyzer.load_history
load_history(file) ==
    IF ~file.exists
    THEN [ok |-> TRUE, val |-> <<>>]
    ELSE JsonLoad(file.text)

-----------------------------------------------------------------------------
(* Benchmark Invoker: the command line                                      *)

IntP(n) == [t |-> "int", s |-> "", n |-> n]
StrP(s) == [t |-> "str", s |-> s, n |-> 0]

\* str(value)
Str(v) == IF v.t = "int" THEN ToString(v.n) ELSE v.s

RECURSIVE CmdFlags(_, _)
\* the for loop over parameters.items()
CmdFlags(parameters, i) ==
    IF i > Len(parameters)
    THEN <<>>
    ELSE (IF parameters[i][1] # "name"
          THEN <<"--" \o parameters[i][1], Str(parameters[i][2])>>
          ELSE <<>>) \o CmdFlags(parameters, i + 1)

RECURSIVE CmdFlagsAll(_, _)
\* The loop without its test on the key.
CmdFlagsAll(parameters, i) ==
    IF i > Len(parameters)
    THEN <<>>
    ELSE <<"--" \o parameters[i][1], Str(parameters[i][2])>>
         \o CmdFlagsAll(parameters, i + 1)

BuildCmdAll(config) ==
    <<"fio", "--name", config.name>> \o CmdFlagsAll(config.parameters, 1)

BuildCmd(config) ==
    <<"fio", "--name", config.name>> \o CmdFlags(config.parameters, 1)

-----------------------------------------------------------------------------
(* Report Generator                                                         *)

\* percentiles.get("95.000000", 0) / 1000
P95us(percentiles) == Frac(DictGet(percentiles, "95.000000", 0))

RECURSIVE extract_key_metrics(_, _)
extract_key_metrics(result, i) ==
    IF i > Len(result)
    THEN <<>>
    ELSE IF result[i][1] \in {"timestamp", "test_name", "global_options"}
    THEN extract_key_metrics(result, i + 1)
    ELSE LET job_data == result[i][2].j[1]
         IN << <<result[i][1],
                 [read_iops |-> job_data.read.iops,
                  write_iops |-> job_data.write.iops,
                  read_latency_us_p95 |-> P95us(job_data.read.percentiles),
                  write_latency_us_p95 |-> P95us(job_data.write.percentiles),
                  read_bandwidth_kbps |-> job_data.read.bw_kbps,
                  write_bandwidth_kbps |-> job_data.write.bw_kbps]>> >>
            \o extract_key_metrics(result, i + 1)

\* A count that leaves the latest run out.
RunsCountOffByOne(test_results) == Len(test_results) - 1

RunsCount(test_results) == Len(test_results)

aggregate_test_results(test_results) ==
    LET latest_result == test_results[Len(test_results)]
    IN [last_run |-> DictGet(latest_result, "timestamp", NullV),
        runs_count |-> RunsCount(test_results),
        latest_metrics |-> extract_key_metrics(latest_result, 1)]

\* [r for r in self.history if r.get("test_name") == test_name]
TestResults(history, test_name) ==
    SelectSeq(history, LAMBDA r : DictGet(r, "test_name", NullV) = StrV(test_name))

RECURSIVE Summary(_, _, _, _)
\* the for loop over self.configs in generate_report
Summary(history, configs, k, summary) ==
    IF k > Len(configs)
    THEN summary
    ELSE LET test_results == TestResults(history, configs[k].name)
         IN Summary(history, configs, k + 1,
                    IF test_results # <<>>
                    THEN DictSet(summary, configs[k].name,
                                 aggregate_test_results(test_results))
                    ELSE summary)

NoReport == [generated_at |-> Absent, total_tests |-> 0, summary |-> <<>>]

BuildReport(history, configs, now) ==
    [generated_at |-> now,
     total_tests |-> Len(history),
     summary |-> Summary(history, configs, 1, <<>>)]

-----------------------------------------------------------------------------
(* Inputs                                                                   *)

CfgA == [name |-> "A",
         parameters |-> << <<"rw", StrP("randrw")>>, <<"runtime", IntP(10)>> >>]
CfgB == [name |-> "B",
         parameters |-> << <<"bs", StrP("8k")>> >>]

\* The lists a config file may hold.
ConfigChoices == { <<CfgA>>, <<CfgA, CfgB>> }

\* How a test invocation may end.
Failures == {"nonzero_exit", "timeout", "bad_json", "exception"}

\* Whole seconds by which the clock has moved on when a successful test reads
\* it (process_fio_results, then save_results), since it was last read.  A
\* failed test reads no clock; the time it takes shows at the next reading.
Elapsed == {0, 1}

\* A record left in fio_history.json by an earlier monitor process.
OldRecord == process_fio_results("A", NoDoc, 0)

InitialHistoryFiles == { NoFile, FileOf(DumpHistory(<<OldRecord>>)) }

None == [isNone |-> TRUE, d |-> <<>>]
Some(d) == [isNone |-> FALSE, d |-> d]
\* "if not results": None and the empty dict are falsy.
Falsy(r) == r.isNone \/ r.d = <<>>

Ev(ev, i, c, ok) == [ev |-> ev, i |-> i, c |-> c, ok |-> ok]

-----------------------------------------------------------------------------
VARIABLES
    single_run,        \* args.single_run
    cycles,            \* args.cycles: [isNone, n]
    interval_minutes,  \* args.interval
    configs,           \* self.configs
    pc,                \* position of the process
    exc,               \* the exception that ended the process, or "none"
    cycle_count,       \* run_monitoring_cycle's cycle_count
    idx,               \* position of the for loop in self.configs
    cmd,               \* the command line of the test being run
    outcome,           \* how the last invocation ended (until its result is used)
    fio_output,        \* the parsed document of the last invocation (same)
    results,           \* what run_fio_test returned
    clock,             \* the second datetime.now() names
    history,           \* self.history
    histFile,          \* fio_results/fio_history.json
    histBefore,        \* the history file as save_results found it
    perRunFiles,       \* fio_results/fio_results_<stamp>.json, by stamp
    report,            \* generate_report's report
    reportFile,        \* fio_results/performance_report.json
    nSaved,            \* save_results calls completed
    log                \* what the process has done, in order

vars == <<single_run, cycles, interval_minutes, configs, pc, exc, cycle_count,
          idx, cmd, outcome, fio_output, results, clock, history, histFile,
          histBefore, perRunFiles, report, reportFile, nSaved, log>>

args == <<single_run, cycles, interval_minutes, configs>>
files == <<histFile, perRunFiles, reportFile>>
call == <<cmd, outcome, fio_output, results>>

Terminal == {"done", "stopped", "crashed"}

\* FIOMonitor.__init__ and argument parsing
Init ==
    /\ single_run \in BOOLEAN
    /\ cycles \in {[isNone |-> TRUE, n |-> 0]}
                  \cup {[isNone |-> FALSE, n |-> n] : n \in 0..MaxCycles}
    /\ single_run => cycles.isNone
    /\ interval_minutes = 1
    /\ configs \in ConfigChoices
    /\ pc = "start"
    /\ exc = "none"
    /\ cycle_count = 0
    /\ idx = 0
    /\ cmd = <<>>
    /\ outcome = "none"
    /\ fio_output = NoDoc
    /\ results = None
    /\ clock = 1
    /\ history = <<>>
    /\ histFile \in InitialHistoryFiles
    /\ histBefore = histFile
    /\ perRunFiles = <<>>
    /\ report = NoReport
    /\ reportFile = [exists |-> FALSE, written |-> FALSE, data |-> NoReport]
    /\ nSaved = 0
    /\ log = <<>>

\* main(): the choice of mode
Main ==
    /\ pc = "start"
    /\ IF single_run
       THEN idx' = 1 /\ pc' = "for"
       ELSE idx' = idx /\ pc' = "while"
    /\ UNCHANGED <<args, exc, cycle_count, call, clock, history, files,
                   histBefore, report, nSaved, log>>

\* "<=" for "<"
LoopContinuesInclusive(cyc, count) == cyc.isNone \/ count <= cyc.n

\* while cycles is None or cycle_count < cycles
LoopContinues(cyc, count) == cyc.isNone \/ count < cyc.n

WhileTest ==
    /\ pc = "while"
    /\ IF LoopContinues(cycles, cycle_count)
       THEN /\ cycle_count < MaxCycles
            /\ cycle_count' = cycle_count + 1
            /\ idx' = 1
            /\ pc' = "for"
       ELSE /\ pc' = "done"
            /\ UNCHANGED <<cycle_count, idx>>
    /\ UNCHANGED <<args, exc, call, clock, history, files, histBefore, report,
                   nSaved, log>>

\* A loop that leaves the last configuration out.
HasNextConfigShort(i, cfgs) == i < Len(cfgs)

\* for config in self.configs
HasNextConfig(i, cfgs) == i <= Len(cfgs)

\* run_fio_test up to the start of the child process
RunFioTestStart ==
    /\ pc = "for"
    /\ HasNextConfig(idx, configs)
    /\ cmd' = BuildCmd(configs[idx])
    /\ pc' = "running"
    /\ log' = Append(log, Ev("run", idx, cycle_count, FALSE))
    /\ UNCHANGED <<args, exc, cycle_count, idx, outcome, fio_output, results,
                   clock, history, files, histBefore, report, nSaved>>

ForExit ==
    /\ pc = "for"
    /\ ~HasNextConfig(idx, configs)
    /\ pc' = "report"
    /\ UNCHANGED <<args, exc, cycle_count, idx, call, clock, history, files,
                   histBefore, report, nSaved, log>>

\* run_fio_test whose try block ends before json.loads
RunFioTestUnguardedParse(config, o, doc, now) ==
    IF o = "ok"
    THEN [raised |-> "none", value |-> Some(process_fio_results(config.name, doc, now))]
    ELSE IF o = "bad_json"
    THEN [raised |-> "JSONDecodeError", value |-> None]
    ELSE [raised |-> "none", value |-> None]

\* run_fio_test from the child's end on: the value returned, and the
\* exception raised past it ("none": every except clause returns None).
RunFioTest(config, o, doc, now) ==
    IF o = "ok"
    THEN [raised |-> "none", value |-> Some(process_fio_results(config.name, doc, now))]
    ELSE [raised |-> "none", value |-> None]

RunFioTestEnd(o, doc, now) ==
    LET r == RunFioTest(configs[idx], o, doc, now)
    IN /\ outcome' = o
       /\ fio_output' = doc
       /\ clock' = now
       /\ results' = r.value
       /\ exc' = r.raised
       /\ pc' = IF r.raised = "none" THEN "returned" ELSE "crashed"
       /\ log' = Append(log, Ev("ret", idx, cycle_count, o = "ok"))

RunFioTestReturn ==
    /\ pc = "running"
    /\ \/ \E o \in Failures : RunFioTestEnd(o, NoDoc, clock)
       \/ \E doc \in Docs(configs[idx].name), d \in Elapsed :
              RunFioTestEnd("ok", doc, clock + d)
    /\ UNCHANGED <<args, cycle_count, idx, cmd, history, files, histBefore,
                   report, nSaved>>

\* "if results:" false, or save_results returning at once
SaveResultsSkip ==
    /\ pc = "returned"
    /\ Falsy(results)
    /\ idx' = idx + 1
    /\ pc' = "for"
    /\ outcome' = "none"
    /\ fio_output' = NoDoc
    /\ UNCHANGED <<args, exc, cycle_count, cmd, results, clock, history, files,
                   histBefore, report, nSaved, log>>

\* datetime.now().strftime("%Y%m%d_%H%M%S")
Stamp(now) == now

\* save_results: open(filename, 'w')
SaveResultsOpen ==
    /\ pc = "returned"
    /\ ~Falsy(results)
    /\ perRunFiles' = DictSet(perRunFiles, Stamp(clock), <<>>)
    /\ histBefore' = histFile
    /\ pc' = "perrun_write"
    /\ outcome' = "none"
    /\ fio_output' = NoDoc
    /\ UNCHANGED <<args, exc, cycle_count, idx, cmd, results, clock, history,
                   histFile, reportFile, report, nSaved, log>>

\* save_results: json.dump(results, f, indent=2)
SaveResultsDump ==
    /\ pc = "perrun_write"
    /\ perRunFiles' = DictSet(perRunFiles, Stamp(clock), EncodeRecord(results.d))
    /\ pc' = "append"
    /\ UNCHANGED <<args, exc, cycle_count, idx, call, clock, history, histFile,
                   histBefore, reportFile, report, nSaved, log>>

\* save_results: self.history.append(results)
HistoryAppend ==
    /\ pc = "append"
    /\ history' = Append(history, results.d)
    /\ pc' = "hist_open"
    /\ UNCHANGED <<args, exc, cycle_count, idx, call, clock, files, histBefore,
                   report, nSaved, log>>

\* save_history: open(history_file, 'w')
SaveHistoryOpen ==
    /\ pc = "hist_open"
    /\ histFile' = FileOf(<<>>)
    /\ pc' = "hist_write"
    /\ UNCHANGED <<args, exc, cycle_count, idx, call, clock, history,
                   perRunFiles, reportFile, histBefore, report, nSaved, log>>

\* save_history: json.dump(self.history, f, indent=2), and the return of
\* save_results
SaveHistoryDump ==
    /\ pc = "hist_write"
    /\ histFile' = FileOf(DumpHistory(history))
    /\ nSaved' = nSaved + 1
    /\ log' = Append(log, Ev("save", idx, cycle_count, TRUE))
    /\ pc' = "saved"
    /\ UNCHANGED <<args, exc, cycle_count, idx, call, clock, history,
                   perRunFiles, reportFile, histBefore, report>>

\* the for loop going on after save_results
SaveResultsReturn ==
    /\ pc = "saved"
    /\ idx' = idx + 1
    /\ pc' = "for"
    /\ UNCHANGED <<args, exc, cycle_count, call, clock, history, files,
                   histBefore, report, nSaved, log>>

AfterReport == IF single_run THEN "done" ELSE "sleep"

\* generate_report with an empty history: a warning, no file
GenerateReportEmpty ==
    /\ pc = "report"
    /\ history = <<>>
    /\ log' = Append(log, Ev("report", 0, cycle_count, FALSE))
    /\ pc' = AfterReport
    /\ UNCHANGED <<args, exc, cycle_count, idx, call, clock, history, files,
                   histBefore, report, nSaved>>

\* generate_report up to open(report_file, 'w')
GenerateReportOpen ==
    /\ pc = "report"
    /\ history # <<>>
    /\ report' = BuildReport(history, configs, clock)
    /\ reportFile' = [exists |-> TRUE, written |-> FALSE, data |-> NoReport]
    /\ log' = Append(log, Ev("report", 0, cycle_count, FALSE))
    /\ pc' = "report_write"
    /\ UNCHANGED <<args, exc, cycle_count, idx, call, clock, history, histFile,
                   perRunFiles, histBefore, nSaved>>

\* generate_report: json.dump(report, f, indent=2)
GenerateReportDump ==
    /\ pc = "report_write"
    /\ reportFile' = [exists |-> TRUE, written |-> TRUE, data |-> report]
    /\ log' = Append(log, Ev("written", 0, cycle_count, TRUE))
    /\ pc' = AfterReport
    /\ UNCHANGED <<args, exc, cycle_count, idx, call, clock, history, histFile,
                   perRunFiles, histBefore, report, nSaved>>

\* time.sleep(interval_minutes * 60)
Sleep ==
    /\ pc = "sleep"
    /\ clock' = clock + interval_minutes * 60
    /\ log' = Append(log, Ev("sleep", 0, cycle_count, FALSE))
    /\ pc' = "while"
    /\ UNCHANGED <<args, exc, cycle_count, idx, call, history, files,
                   histBefore, report, nSaved>>

\* A KeyboardInterrupt, delivered anywhere in the loop.  run_monitoring_cycle
\* catches it (it is no Exception, so run_fio_test does not); the with
\* statements close the file being written as it is.  The single-run path of
\* main() has no handler.
Interrupt ==
    /\ pc \notin Terminal \cup {"start"}
    /\ exc' = "KeyboardInterrupt"
    /\ pc' = IF single_run THEN "crashed" ELSE "stopped"
    /\ UNCHANGED <<args, cycle_count, idx, call, clock, history, files,
                   histBefore, report, nSaved, log>>

\* The steps of the process itself.
Step ==
    \/ Main
    \/ WhileTest
    \/ RunFioTestStart
    \/ ForExit
    \/ RunFioTestReturn
    \/ SaveResultsSkip
    \/ SaveResultsOpen
    \/ SaveResultsDump
    \/ HistoryAppend
    \/ SaveHistoryOpen
    \/ SaveHistoryDump
    \/ SaveResultsReturn
    \/ GenerateReportEmpty
    \/ GenerateReportOpen
    \/ GenerateReportDump
    \/ Sleep

Next == Step \/ Interrupt

Spec == Init /\ [][Next]_vars

-----------------------------------------------------------------------------
(* The command line alone, over a wider set of configurations.              *)

\* Longest parameter mapping explored.
MaxParams == 2

ParamKeys == {"name", "bs", "runtime", "rw"}
ParamValues == {StrP("8k"), IntP(32)}

DistinctKeys(ps) == \A i, j \in 1..Len(ps) : ps[i][1] = ps[j][1] => i = j

\* Mappings of at most MaxParams keys, in every iteration order.
ParamMappings ==
    { ps \in UNION { [1..m -> ParamKeys \X ParamValues] : m \in 0..MaxParams } :
        DistinctKeys(ps) }

CmdConfigs == { [name |-> nm, parameters |-> ps] : nm \in {"t1", "name"}, ps \in ParamMappings }

InitCmd ==
    /\ single_run = TRUE
    /\ cycles = [isNone |-> TRUE, n |-> 0]
    /\ interval_minutes = 1
    /\ configs \in { <<c>> : c \in CmdConfigs }
    /\ pc = "cmd"
    /\ exc = "none"
    /\ cycle_count = 0
    /\ idx = 1
    /\ cmd = <<>>
    /\ outcome = "none"
    /\ fio_output = NoDoc
    /\ results = None
    /\ clock = 1
    /\ history = <<>>
    /\ histFile = NoFile
    /\ histBefore = NoFile
    /\ perRunFiles = <<>>
    /\ report = NoReport
    /\ reportFile = [exists |-> FALSE, written |-> FALSE, data |-> NoReport]
    /\ nSaved = 0
    /\ log = <<>>

\* run_fio_test, lines 72-81
BuildCommand ==
    /\ pc = "cmd"
    /\ cmd' = BuildCmd(configs[idx])
    /\ pc' = "cmd_built"
    /\ UNCHANGED <<args, exc, cycle_count, idx, outcome, fio_output, results,
                   clock, history, files, histBefore, report, nSaved, log>>

NextCmd == BuildCommand

CmdSpec == InitCmd /\ [][NextCmd]_vars

-----------------------------------------------------------------------------
(* Properties                                                               *)

Count(seq, ev) == Cardinality({p \in 1..Len(seq) : seq[p].ev = ev})

\* Every start of a test is followed by its return, every successful return
\* by the save of that test's result, and nothing else is saved or written.
WellNested(l) ==
    \A p \in 1..Len(l) :
        /\ l[p].ev = "run" =>
               p < Len(l) /\ l[p + 1].ev = "ret"
               /\ l[p + 1].i = l[p].i /\ l[p + 1].c = l[p].c
        /\ l[p].ev = "ret" =>
               (l[p].ok <=> (p < Len(l) /\ l[p + 1] = Ev("save", l[p].i, l[p].c, TRUE)))
        /\ l[p].ev = "save" => p > 1 /\ l[p - 1] = Ev("ret", l[p].i, l[p].c, TRUE)
        /\ l[p].ev = "written" => p > 1 /\ l[p - 1].ev = "report"

\* The log without returns, saves and report writes.
Skeleton(l) == SelectSeq(l, LAMBDA e : e.ev \in {"run", "report", "sleep"})

\* C1: when save_results has completed, fio_history.json parses, load_history
\* returns exactly self.history, and that is one record per completed save,
\* in append order.
C1_SavedFileIsHistory ==
    pc = "saved" =>
        LET l == load_history(histFile)
        IN l.ok /\ l.val = history /\ Len(l.val) = nSaved

C1_Witness ==
    /\ pc = "saved"
    /\ nSaved = 3
    /\ load_history(histFile).val = history
    /\ \E k \in 1..3 : HasKey(history[k], "unknown")

\* C2: no failure of an invocation (non-zero exit, timeout, malformed JSON,
\* unexpected exception) raises past run_fio_test, each yields None, and when
\* report generation is reached every configured test of the cycle has run and
\* every successful one has been saved.
C2_FailuresAreAbsorbed ==
    /\ exc \in {"none", "KeyboardInterrupt"}
    /\ (pc = "returned" /\ outcome \in Failures) => results = None
    /\ pc = "report" =>
           /\ \A i \in 1..Len(configs) :
                  \E p \in 1..Len(log) :
                      /\ log[p].ev = "ret" /\ log[p].i = i /\ log[p].c = cycle_count
                      /\ log[p].ok => (p < Len(log)
                                       /\ log[p + 1] = Ev("save", i, cycle_count, TRUE))
           /\ Len(history) = Cardinality({p \in 1..Len(log) :
                                             log[p].ev = "ret" /\ log[p].ok})
           /\ nSaved = Len(history)

C2_Witness ==
    /\ pc = "report"
    /\ \E p, q \in 1..Len(log) :
           /\ p < q
           /\ log[p].ev = "ret" /\ ~log[p].ok /\ log[p].c = cycle_count
           /\ log[q].ev = "save" /\ log[q].c = cycle_count /\ log[q].i > log[p].i

\* C3 (as claimed): after an interrupt has stopped the periodic loop, the
\* history file still holds every result whose save had completed.
C3_InterruptKeepsSavedResults ==
    (pc = "stopped" /\ nSaved > 0) =>
        LET l == load_history(histFile)
        IN l.ok /\ IsPrefix(SubSeq(history, 1, nSaved), l.val)

\* C4 (as claimed): the history file as save_results found it is a prefix of
\* the history file as save_results leaves it.
C4_HistoryFileOnlyGrows ==
    pc = "saved" =>
        LET before == load_history(histBefore)
            after == load_history(histFile)
        IN before.ok /\ after.ok /\ IsPrefix(before.val, after.val)

\* The number of history records whose test_name field is the given name.
RunsOf(h, name) ==
    Cardinality({i \in 1..Len(h) : DictGet(h[i], "test_name", NullV) = StrV(name)})

\* C5: the summary of a generated report has an entry for a configured test
\* name exactly if some history record carries that name, the entry's
\* runs_count is the number of such records, and it has no other entries.
C5_SummaryCountsRuns ==
    pc = "report_write" =>
        /\ \A k \in 1..Len(configs) :
               LET name == configs[k].name
               IN /\ HasKey(report.summary, name) <=> RunsOf(history, name) > 0
                  /\ HasKey(report.summary, name) =>
                         DictGet(report.summary, name, NullV).runs_count
                             = RunsOf(history, name)
        /\ \A e \in 1..Len(report.summary) :
               \E k \in 1..Len(configs) : configs[k].name = report.summary[e][1]

C5_Witness ==
    /\ pc = "report_write"
    /\ Len(configs) = 2
    /\ HasKey(report.summary, "A")
    /\ DictGet(report.summary, "A", NullV).runs_count = 2
    /\ ~HasKey(report.summary, "B")
    /\ Len(history) = 3

\* C6 (as claimed): a single run that has terminated has written the report
\* file exactly once.
C6_ReportWrittenOnce ==
    (single_run /\ pc = "done") => Count(log, "written") = 1

\* C6 (amended): a single run is never stuck before it ends; when it has
\* ended, every configured test has run exactly once, in configuration order,
\* each successful result has been saved right after its test, generate_report
\* has been called once, after the last test, and the report file has been
\* written once if a result was saved and not at all if every test failed.
C6_SingleRun ==
    /\ (single_run /\ pc \notin Terminal) => ENABLED Step
    /\ (single_run /\ pc = "done") =>
           /\ Len(Skeleton(log)) = Len(configs) + 1
           /\ \A i \in 1..Len(configs) : Skeleton(log)[i] = Ev("run", i, 0, FALSE)
           /\ Skeleton(log)[Len(configs) + 1] = Ev("report", 0, 0, FALSE)
           /\ WellNested(log)
           /\ nSaved = Count(log, "save")
           /\ Len(history) = nSaved
           /\ Count(log, "written") = (IF nSaved > 0 THEN 1 ELSE 0)
           /\ reportFile.written <=> nSaved > 0
           /\ reportFile.written => reportFile.data.total_tests = nSaved

C6_Witness ==
    /\ single_run
    /\ pc = "done"
    /\ Len(configs) = 2
    /\ nSaved = 0
    /\ ~reportFile.exists

\* C7: a periodic run with --cycles N is never stuck before it ends, and,
\* when it has ended without an interrupt, it has gone through exactly N
\* cycles, each of them the configured tests in order, one at a time (a test
\* returns, and its result is saved, before the next starts), then the report,
\* then the sleep.
C7_BoundedPeriodic ==
    /\ (~single_run /\ ~cycles.isNone /\ pc \notin Terminal) => ENABLED Step
    /\ (~single_run /\ ~cycles.isNone /\ pc = "done") =>
           LET n == Len(configs)
               sk == Skeleton(log)
           IN /\ cycle_count = cycles.n
              /\ Len(sk) = cycles.n * (n + 2)
              /\ \A c \in 1..cycles.n :
                     /\ \A i \in 1..n :
                            sk[(c - 1) * (n + 2) + i] = Ev("run", i, c, FALSE)
                     /\ sk[(c - 1) * (n + 2) + n + 1] = Ev("report", 0, c, FALSE)
                     /\ sk[(c - 1) * (n + 2) + n + 2] = Ev("sleep", 0, c, FALSE)
              /\ WellNested(log)

C7_Witness ==
    /\ ~single_run
    /\ ~cycles.isNone
    /\ cycles.n = 2
    /\ pc = "done"
    /\ Len(configs) = 2
    /\ nSaved = 2
    /\ Count(log, "ret") = 4

\* C8 (as claimed): after k completed saves there are k per-run files, and
\* every saved result is held by one of them.
C8_OneFilePerSave ==
    pc = "saved" =>
        /\ Len(perRunFiles) = nSaved
        /\ \A k \in 1..Len(history) :
               \E f \in 1..Len(perRunFiles) :
                   perRunFiles[f][2] = EncodeRecord(history[k])

\* The positions of the parameters that become flags.
Flagged(ps) == {j \in 1..Len(ps) : ps[j][1] # "name"}

\* C9: the command line is the tool name, --name and the test name, then for
\* each parameter other than "name", in iteration order, --<key> and
\* str(value), and nothing else.
C9_CommandLine ==
    pc = "cmd_built" =>
        LET ps == configs[idx].parameters
        IN /\ Len(cmd) = 3 + 2 * Cardinality(Flagged(ps))
           /\ SubSeq(cmd, 1, 3) = <<"fio", "--name", configs[idx].name>>
           /\ \A j \in Flagged(ps) :
                  LET r == Cardinality({i \in Flagged(ps) : i <= j})
                  IN /\ cmd[2 + 2 * r] = "--" \o ps[j][1]
                     /\ cmd[3 + 2 * r] = (IF ps[j][2].t = "int"
                                          THEN ToString(ps[j][2].n)
                                          ELSE ps[j][2].s)

C9_Witness ==
    /\ pc = "cmd_built"
    /\ Len(configs[idx].parameters) = 2
    /\ configs[idx].parameters[1][1] = "name"
    /\ configs[idx].parameters[2] = <<"runtime", IntP(32)>>
    /\ cmd = <<"fio", "--name", "t1", "--runtime", "32">>

\* C10 (as claimed): the record run_fio_test returns carries the test name it
\* was called with, the normalizer's timestamp and the document's global
\* options.
C10_MetadataKept ==
    (pc = "returned" /\ ~results.isNone) =>
        /\ DictGet(results.d, "test_name", NullV) = StrV(configs[idx].name)
        /\ DictGet(results.d, "timestamp", NullV) = TimeV(clock)
        /\ DictGet(results.d, "global_options", NullV) = GlobalOptions(fio_output)

====
